---- MODULE Spec2Model ----
(***************************************************************************)
(* Model of the hashing layer (crypto/src/hash/mod.rs and                  *)
(* crypto/src/hash/blake2s/mod.rs) and of the verifier's constraint        *)
(* evaluator (verifier/src/evaluator.rs).                                  *)
(*                                                                         *)
(* Bytes are integers 0..255, byte arrays and slices are sequences.  A     *)
(* panic (failed unwrap, slice length mismatch, index out of bounds,       *)
(* division by zero) is the result [ok |-> FALSE, val |-> <<>>].           *)
(***************************************************************************)
EXTENDS Integers, Sequences, FiniteSets, TLC

VARIABLES
    digest,     \* the ByteDigest<N> value under test: its N bytes
    dcall,      \* the last ByteDigest operation applied to it
    dret,       \* what that operation returned
    hcall,      \* the last Hasher / ElementHasher call: operation and inputs
    hpc,        \* "call" while that call is pending, "returned" after it
    hret,       \* what that call returned
    ev          \* the activation record of evaluate_constraints

vars == <<digest, dcall, dret, hcall, hpc, hret, ev>>

Ok(v) == [ok |-> TRUE, val |-> v]
Panic == [ok |-> FALSE, val |-> <<>>]

--------------------------------------------------------------------------
(* Program constants *)

\* the width of the Digest trait's view: fn as_bytes(&self) -> [u8; 32]
ViewBytes == 32
\* type Digest = ByteDigest<32> and ByteDigest<24>
Digest256Bytes == 32
Digest192Bytes == 24
\* self.0.chunks(4)
WordBytes == 4

(* Bounds of the model *)

\* longest byte string handed to hash()
MaxLen == 3
\* number of sample byte patterns a digest is filled with
MaxPattern == 2
\* longest element sequence handed to hash_elements()
MaxElems == 2

SampleBytes == {0, 1, 2, 3, 255}

Min(a, b) == IF a < b THEN a ELSE b

\* [c; n]
Repeat(c, n) == [i \in 1..n |-> c]

\* s[from..to) with Rust's 0-based half-open bounds
Slice(s, from, to) == [i \in 1..(to - from) |-> s[from + i]]

\* all sequences over S of length at most n
SeqsUpTo(S, n) == UNION {[1..k -> S] : k \in 0..n}

\* a sample N-byte array: pattern 0 is all zero, the last pattern is all 0xFF
PatternBytes(p, n) ==
    IF p = MaxPattern + 1 THEN Repeat(255, n)
    ELSE [i \in 1..n |-> (p * (37 * i + 11)) % 256]

SampleArrays(n) == {PatternBytes(p, n) : p \in 0..(MaxPattern + 1)}

--------------------------------------------------------------------------
(* ByteDigest<N> *)

\* ByteDigest::new
new(value) == value

\* Default for ByteDigest<N>
default(n) == Repeat(0, n)

\* slice::chunks(size): consecutive chunks, the last one possibly shorter
chunks(s, size) ==
    [k \in 1..((Len(s) + size - 1) \div size) |->
        Slice(s, (k - 1) * size, Min(k * size, Len(s)))]

\* <[u8; 4]>::try_from(&[u8]): fails unless the slice has exactly 4 bytes
try_into_word(chunk) ==
    IF Len(chunk) = WordBytes THEN Ok(chunk) ELSE Panic

\* u32::from_le_bytes; a u32 is kept as its two 16-bit halves
from_le_bytes(b) ==
    [lo |-> b[1] + 256 * b[2], hi |-> b[3] + 256 * b[4]]

\* ByteDigest::to_words
to_words(d) ==
    LET cs == chunks(d, WordBytes)
    IN  IF \E k \in 1..Len(cs) : ~try_into_word(cs[k]).ok
        THEN Panic
        ELSE Ok([k \in 1..Len(cs) |-> from_le_bytes(try_into_word(cs[k]).val)])

\* as_bytes with the digest copied to the end of the view instead of its start
as_bytes_right_aligned(d) ==
    LET n == Len(d)
    IN  IF n > ViewBytes
        THEN Panic
        ELSE Ok([i \in 1..ViewBytes |->
                    IF i > ViewBytes - n THEN d[i - (ViewBytes - n)] ELSE 0])

\* Digest::as_bytes for ByteDigest<N>
as_bytes(d) ==
    LET n == Len(d)
        result == Repeat(0, ViewBytes)
    IN  IF n > ViewBytes
        THEN Panic
        ELSE Ok([i \in 1..ViewBytes |-> IF i <= n THEN d[i] ELSE result[i]])

HexDigit == <<"0", "1", "2", "3", "4", "5", "6", "7",
              "8", "9", "a", "b", "c", "d", "e", "f">>

\* the four lower-hex digits of a 16-bit value, most significant first
Hex4(h) ==
    <<HexDigit[(h \div 4096) + 1], HexDigit[((h \div 256) % 16) + 1],
      HexDigit[((h \div 16) % 16) + 1], HexDigit[(h % 16) + 1]>>

\* write!(f, "{:08x}", word)
fmt_08x(w) == Hex4(w.hi) \o Hex4(w.lo)

RECURSIVE Concat(_)
Concat(ss) == IF ss = <<>> THEN <<>> ELSE Head(ss) \o Concat(Tail(ss))

\* impl LowerHex for ByteDigest<N>
fmt(d) ==
    LET cs == chunks(d, WordBytes)
    IN  IF \E k \in 1..Len(cs) : ~try_into_word(cs[k]).ok
        THEN Panic
        ELSE Ok(Concat([k \in 1..Len(cs) |->
                    fmt_08x(from_le_bytes(try_into_word(cs[k]).val))]))

\* digests_as_bytes taking every digest's 32-byte view instead of its N bytes
digests_as_padded_bytes(digests) ==
    Concat([k \in 1..Len(digests) |-> as_bytes(digests[k]).val])

\* ByteDigest::digests_as_bytes: the digests' bytes, contiguous ([u8; N] has
\* size N and alignment 1, so a slice of k digests is k * N bytes)
digests_as_bytes(digests) == Concat(digests)

--------------------------------------------------------------------------
(* ByteDigest operations as actions *)

DigestSizes == 1..ViewBytes

New ==
    \E n \in DigestSizes : \E value \in SampleArrays(n) :
        /\ digest' = new(value)
        /\ dcall' = "new"
        /\ dret' = Ok(<<>>)
        /\ UNCHANGED <<hcall, hpc, hret, ev>>

AsBytes ==
    /\ dcall' = "as_bytes"
    /\ dret' = as_bytes(digest)
    /\ UNCHANGED <<digest, hcall, hpc, hret, ev>>

ToWords ==
    /\ dcall' = "to_words"
    /\ dret' = to_words(digest)
    /\ UNCHANGED <<digest, hcall, hpc, hret, ev>>

Fmt ==
    /\ dcall' = "fmt"
    /\ dret' = fmt(digest)
    /\ UNCHANGED <<digest, hcall, hpc, hret, ev>>

NextDigest == New \/ AsBytes \/ ToWords \/ Fmt

--------------------------------------------------------------------------
(* BLAKE2s *)

\* The BLAKE2s primitive of the `blake2` crate, with a 32-byte output and no
\* key.  The crate is outside this repository: it is represented by a fixed
\* deterministic function of the whole input (its length and every byte with
\* its position), eight 16-bit lanes spread over the 32 output bytes.
Weight(i, k) == (((i * (2 * k + 3) + k * k + 1) * (i + 7)) % 251) + 1

RECURSIVE Absorb(_, _, _, _)
Absorb(bytes, lo, hi, k) ==
    IF lo > hi THEN 0
    ELSE IF lo = hi THEN (bytes[lo] + 1) * Weight(lo, k)
    ELSE LET mid == (lo + hi) \div 2
         IN  Absorb(bytes, lo, mid, k) + Absorb(bytes, mid + 1, hi, k)

Lane(bytes, k) ==
    (1 + k + 977 * Len(bytes) + Absorb(bytes, 1, Len(bytes), k)) % 65521

\* fn blake2s_hash(bytes: &[u8]) -> [u8; 32]
blake2s_hash(bytes) ==
    [i \in 1..32 |->
        LET k == (i - 1) \div 4
            j == (i - 1) % 4
            w == Lane(bytes, k)
        IN  CASE j = 0 -> w % 256
              [] j = 1 -> w \div 256
              [] j = 2 -> (w * 7 + k) % 256
              [] OTHER -> (w \div 3) % 256]

\* struct Blake2sHasher(Blake2s): the incremental state is the input so far
Blake2sHasher_new == <<>>

\* ByteWriter::write_u8_slice for Blake2sHasher
write_u8_slice(hasher, values) == hasher \o values

\* Blake2sHasher::finalize
finalize(hasher) == blake2s_hash(hasher)

\* result[..24].try_into().unwrap()
first_24(result) == Slice(result, 0, 24)

\* u64::to_le_bytes; a u64 is kept as four 16-bit limbs, least significant
\* limb first
to_le_bytes(value) ==
    [i \in 1..8 |->
        LET limb == value[((i - 1) \div 2) + 1]
        IN  IF (i - 1) % 2 = 0 THEN limb % 256 ELSE limb \div 256]

\* dst[from..to].copy_from_slice(src): panics unless the lengths are equal
copy_from_slice(dst, from, to, src) ==
    IF to > Len(dst) \/ Len(src) # to - from
    THEN Panic
    ELSE Ok([i \in 1..Len(dst) |->
                IF i > from /\ i <= to THEN src[i - from] ELSE dst[i]])

(* Field elements.  An element is the sequence of its base-field            *)
(* coefficients in canonical form, each a u64 (one for a base element of a  *)
(* 64-bit field, two for a quadratic extension element or an element of a   *)
(* 128-bit field).                                                          *)

\* Serializable::to_bytes of a field element: its canonical bytes
to_bytes(e) == Concat([k \in 1..Len(e) |-> to_le_bytes(e[k])])

\* FieldElement::elements_as_bytes: the elements' memory, which for a field
\* with IS_CANONICAL is the canonical bytes
elements_as_bytes(elements) ==
    Concat([k \in 1..Len(elements) |-> to_bytes(elements[k])])

\* ByteWriter::write(elements): every element's write_into, in order
RECURSIVE write(_, _)
write(hasher, elements) ==
    IF elements = <<>> THEN hasher
    ELSE write(write_u8_slice(hasher, to_bytes(Head(elements))), Tail(elements))

(* Blake2s_256 *)

\* hash with the input zero-padded to a whole number of 32-bit words
Blake2s_256_hash_word_padded(bytes) ==
    Ok(blake2s_hash(bytes \o Repeat(0, (WordBytes - (Len(bytes) % WordBytes)) % WordBytes)))

Blake2s_256_hash(bytes) == Ok(blake2s_hash(bytes))

Blake2s_256_merge(values) == Ok(blake2s_hash(digests_as_bytes(values)))

Blake2s_256_merge_with_int(seed, value) ==
    LET data0 == Repeat(0, 40)
        data1 == copy_from_slice(data0, 0, 32, seed)
        data2 == copy_from_slice(data1.val, 32, Len(data0), to_le_bytes(value))
    IN  IF ~data1.ok \/ ~data2.ok THEN Panic
        ELSE Ok(blake2s_hash(data2.val))

\* the loop of the non-canonical branch: one zero-padded slot per element
RECURSIVE write_slots(_, _)
write_slots(hasher, elements) ==
    IF elements = <<>> THEN Ok(hasher)
    ELSE LET buf == copy_from_slice(Repeat(0, 32), 0, 8, to_bytes(Head(elements)))
         IN  IF ~buf.ok THEN Panic
             ELSE write_slots(write_u8_slice(hasher, buf.val), Tail(elements))

Blake2s_256_hash_elements(is_canonical, elements) ==
    IF is_canonical
    THEN Ok(blake2s_hash(elements_as_bytes(elements)))
    ELSE LET hasher == write_slots(Blake2sHasher_new, elements)
         IN  IF ~hasher.ok THEN Panic ELSE Ok(finalize(hasher.val))

(* Blake2s_192 *)

Blake2s_192_hash(bytes) == Ok(first_24(blake2s_hash(bytes)))

Blake2s_192_merge(values) ==
    Ok(first_24(blake2s_hash(digests_as_bytes(values))))

\* merge_with_int of the 192-bit hasher with the 256-bit hasher's buffer
\* layout: a 40-byte buffer, the counter at offset 32
Blake2s_192_merge_with_int_wide(seed, value) ==
    LET data0 == Repeat(0, 40)
        data1 == copy_from_slice(data0, 0, 24, seed)
        data2 == copy_from_slice(data1.val, 32, Len(data0), to_le_bytes(value))
    IN  IF ~data1.ok \/ ~data2.ok THEN Panic
        ELSE Ok(first_24(blake2s_hash(data2.val)))

Blake2s_192_merge_with_int(seed, value) ==
    LET data0 == Repeat(0, 32)
        data1 == copy_from_slice(data0, 0, 24, seed)
        data2 == copy_from_slice(data1.val, 24, Len(data0), to_le_bytes(value))
    IN  IF ~data1.ok \/ ~data2.ok THEN Panic
        ELSE Ok(first_24(blake2s_hash(data2.val)))

Blake2s_192_hash_elements(is_canonical, elements) ==
    IF is_canonical
    THEN Ok(first_24(blake2s_hash(elements_as_bytes(elements))))
    ELSE Ok(first_24(finalize(write(Blake2sHasher_new, elements))))

(* The Hasher and ElementHasher traits, by implementation *)

Hashers == {"Blake2s_256", "Blake2s_192"}

\* Hasher::Digest
DigestBytes(H) == IF H = "Blake2s_256" THEN Digest256Bytes ELSE Digest192Bytes

hash(H, bytes) ==
    IF H = "Blake2s_256" THEN Blake2s_256_hash(bytes) ELSE Blake2s_192_hash(bytes)

merge(H, values) ==
    IF H = "Blake2s_256" THEN Blake2s_256_merge(values) ELSE Blake2s_192_merge(values)

merge_with_int(H, seed, value) ==
    IF H = "Blake2s_256" THEN Blake2s_256_merge_with_int(seed, value)
    ELSE Blake2s_192_merge_with_int(seed, value)

hash_elements(H, is_canonical, elements) ==
    IF H = "Blake2s_256" THEN Blake2s_256_hash_elements(is_canonical, elements)
    ELSE Blake2s_192_hash_elements(is_canonical, elements)

--------------------------------------------------------------------------
(* Inputs of the hasher calls *)

\* u64 samples: 0, 1, 0x0807060504030201, u64::MAX
SampleU64 == {<<0, 0, 0, 0>>, <<1, 0, 0, 0>>, <<513, 1027, 1541, 2055>>,
              <<65535, 65535, 65535, 65535>>}

\* coefficient samples: ZERO, ONE, and the first value of the
\* hash_elements_with_ser test, 2541413064022245539
ZeroCoef == <<0, 0, 0, 0>>
SampleCoefs == {ZeroCoef, <<1, 0, 0, 0>>, <<16547, 31893, 59831, 9028>>}

\* number of u64 coefficients of an element type E
ElementWidths == {1, 2}

\* E::ZERO
ZERO(width) == Repeat(ZeroCoef, width)

SampleElements(width) == {Repeat(c, width) : c \in SampleCoefs}

NoCall == [op |-> "none", hasher |-> "none", bytes |-> <<>>, digests |-> <<>>,
           value |-> <<>>, is_canonical |-> FALSE, elements |-> <<>>]

HashCalls ==
    {[NoCall EXCEPT !.op = "hash", !.hasher = H, !.bytes = bytes] :
        H \in Hashers, bytes \in SeqsUpTo(SampleBytes, MaxLen)}

MergeCalls ==
    UNION {{[NoCall EXCEPT !.op = "merge", !.hasher = H, !.digests = <<d1, d2>>] :
                d1 \in SampleArrays(DigestBytes(H)),
                d2 \in SampleArrays(DigestBytes(H))} : H \in Hashers}

MergeWithIntCalls ==
    UNION {{[NoCall EXCEPT !.op = "merge_with_int", !.hasher = H,
                           !.digests = <<seed>>, !.value = value] :
                seed \in SampleArrays(DigestBytes(H)),
                value \in SampleU64} : H \in Hashers}

HashElementsCalls ==
    UNION {{[NoCall EXCEPT !.op = "hash_elements", !.hasher = H,
                           !.is_canonical = c, !.elements = elements] :
                H \in Hashers, c \in BOOLEAN,
                elements \in SeqsUpTo(SampleElements(width), MaxElems)} :
           width \in ElementWidths}

(* Hasher and ElementHasher calls as actions: each applies the called       *)
(* function to the inputs of the pending call                               *)

Hash ==
    /\ hpc = "call" /\ hcall.op = "hash"
    /\ hret' = hash(hcall.hasher, hcall.bytes)
    /\ hpc' = "returned"
    /\ UNCHANGED <<digest, dcall, dret, hcall, ev>>

Merge ==
    /\ hpc = "call" /\ hcall.op = "merge"
    /\ hret' = merge(hcall.hasher, hcall.digests)
    /\ hpc' = "returned"
    /\ UNCHANGED <<digest, dcall, dret, hcall, ev>>

MergeWithInt ==
    /\ hpc = "call" /\ hcall.op = "merge_with_int"
    /\ hret' = merge_with_int(hcall.hasher, hcall.digests[1], hcall.value)
    /\ hpc' = "returned"
    /\ UNCHANGED <<digest, dcall, dret, hcall, ev>>

HashElements ==
    /\ hpc = "call" /\ hcall.op = "hash_elements"
    /\ hret' = hash_elements(hcall.hasher, hcall.is_canonical, hcall.elements)
    /\ hpc' = "returned"
    /\ UNCHANGED <<digest, dcall, dret, hcall, ev>>

NextHash == Hash \/ Merge \/ MergeWithInt \/ HashElements

--------------------------------------------------------------------------
(* evaluate_constraints *)

(* Bounds of the evaluator's inputs *)

\* modulus of the field E the evaluator computes in
FieldModulus == 7
\* air.trace_length()
TraceLength == 8
\* longest periodic column polynomial
MaxPolyLen == 4
\* most boundary constraint groups of the main segment
MaxMainGroups == 2
\* most boundary constraint groups of the auxiliary segment
MaxAuxGroups == 1
\* t_constraints.num_main_constraints() and num_aux_constraints()
NumMainConstraints == 2
NumAuxConstraints == 2

Felt(n) == n % FieldModulus

\* E::zeroed_vector(n)
zeroed_vector(n) == [k \in 1..n |-> 0]

\* FieldElement::exp_vartime(power)
RECURSIVE exp_vartime(_, _)
exp_vartime(b, power) ==
    IF power = 0 THEN Felt(1) ELSE Felt(b * exp_vartime(b, power - 1))

\* math::polynom::eval(poly, x): Horner's rule, poly[1] the constant term
RECURSIVE polynom_eval(_, _)
polynom_eval(poly, x) ==
    IF poly = <<>> THEN 0
    ELSE Felt(Head(poly) + x * polynom_eval(Tail(poly), x))

RECURSIVE SumSeq(_)
SumSeq(s) == IF s = <<>> THEN 0 ELSE Head(s) + SumSeq(Tail(s))

(* The AIR collaborator.  Its methods are fixed deterministic functions of  *)
(* everything they are handed.                                              *)

\* the column a constraint reads
Column(frame, k) == ((k - 1) % Len(frame.current)) + 1

\* Air::evaluate_transition(frame, periodic_values, result)
evaluate_transition(frame, periodic_values, n) ==
    [k \in 1..n |->
        Felt(frame.next[Column(frame, k)]
             + (FieldModulus - 1) * frame.current[Column(frame, k)] * (k + 1)
             + SumSeq(periodic_values))]

\* Air::evaluate_aux_transition(main_frame, aux_frame, periodic_values,
\*                              aux_rand_elements, result)
evaluate_aux_transition(main_frame, aux_frame, periodic_values, rand, n) ==
    [k \in 1..n |->
        Felt(aux_frame.next[Column(aux_frame, k)]
             + aux_frame.current[Column(aux_frame, k)]
               * (main_frame.current[Column(main_frame, k)] + rand)
             + 1 + SumSeq(periodic_values))]

\* TransitionConstraints::combine_evaluations(main_evaluations,
\*                                            aux_evaluations, x)
combine_evaluations(t1, t2, x) ==
    Felt(SumSeq([k \in 1..Len(t1) |-> (k + 1) * t1[k]])
         + SumSeq([k \in 1..Len(t2) |-> (k + 3) * t2[k] + 1]) * (x + 1))

\* BoundaryConstraintGroup::evaluate_at(state, x, xp)
evaluate_at(group, state, x, xp) ==
    Felt((state[group.column] + (FieldModulus - 1) * group.value + 1)
         * (group.cc + 2 * xp) + x)

(* The evaluator's own steps *)

\* the periodic_values closure: x folded to the column's period, then the
\* column polynomial evaluated there; the integer division panics on an
\* empty polynomial
periodic_value(trace_length, poly, x) ==
    IF Len(poly) = 0 THEN Panic
    ELSE LET num_cycles == trace_length \div Len(poly)
         IN  Ok(polynom_eval(poly, exp_vartime(x, num_cycles)))

periodic_values_of(trace_length, polys, x) ==
    IF \E k \in 1..Len(polys) : ~periodic_value(trace_length, polys[k], x).ok
    THEN Panic
    ELSE Ok([k \in 1..Len(polys) |-> periodic_value(trace_length, polys[k], x).val])

\* the cached pair kept without recomputing the power when the degree
\* adjustment changes
stale_cached_power(x, degree_adjustment, xp, group) ==
    IF group.degree_adjustment # degree_adjustment
    THEN <<group.degree_adjustment, xp>>
    ELSE <<degree_adjustment, xp>>

\* the cached pair (degree_adjustment, xp) a group is evaluated with
cached_power(x, degree_adjustment, xp, group) ==
    IF group.degree_adjustment # degree_adjustment
    THEN <<group.degree_adjustment, exp_vartime(x, group.degree_adjustment)>>
    ELSE <<degree_adjustment, xp>>

\* the result without the combined transition evaluations
boundary_only_result(b_result, t_combined) == b_result

\* let result = b_result + t_combined
final_result(b_result, t_combined) == Felt(b_result + t_combined)

\* the inputs of one call
SampleX == {2, 3}

Poly(len) == [k \in 1..len |-> Felt(k)]

SamplePolys == {<<>>} \cup {<<Poly(len)>> : len \in 0..MaxPolyLen}

SampleGroups ==
    {[degree_adjustment |-> 1, column |-> 1, value |-> 1, cc |-> 1],
     [degree_adjustment |-> 1, column |-> 2, value |-> 2, cc |-> 3],
     [degree_adjustment |-> 3, column |-> 1, value |-> 0, cc |-> 2]}

MainFrame == [current |-> <<3, 5>>, next |-> <<4, 6>>]
AuxFrame == [current |-> <<2, 6>>, next |-> <<1, 1>>]
NoFrame == [current |-> <<>>, next |-> <<>>]

EvalCalls ==
    {[pc |-> "periodic", x |-> x, trace_length |-> TraceLength, polys |-> polys,
      main_trace_frame |-> MainFrame,
      aux_trace_frame |-> [some |-> has_aux,
                           frame |-> IF has_aux THEN AuxFrame ELSE NoFrame],
      aux_rand_elements |-> 2,
      main_constraints |-> main, aux_constraints |-> aux,
      periodic_values |-> <<>>, t_evaluations1 |-> <<>>, t_evaluations2 |-> <<>>,
      t_combined |-> 0, degree_adjustment |-> 0, xp |-> 0, b_result |-> 0,
      i |-> 0, result |-> 0,
      aux_transition_called |-> FALSE, evaluated |-> <<>>] :
        x \in SampleX, polys \in SamplePolys, has_aux \in BOOLEAN,
        main \in SeqsUpTo(SampleGroups, MaxMainGroups),
        aux \in SeqsUpTo(SampleGroups, MaxAuxGroups)}

\* lines 28-37: the values of the periodic columns at x
PeriodicValues ==
    /\ ev.pc = "periodic"
    /\ LET pv == periodic_values_of(ev.trace_length, ev.polys, ev.x)
       IN  ev' = IF pv.ok
                 THEN [ev EXCEPT !.pc = "transition", !.periodic_values = pv.val]
                 ELSE [ev EXCEPT !.pc = "panic"]
    /\ UNCHANGED <<digest, dcall, dret, hcall, hpc, hret>>

\* lines 39-41: the main segment's transition evaluations
EvaluateTransition ==
    /\ ev.pc = "transition"
    /\ ev' = [ev EXCEPT !.pc = "aux_transition",
                        !.t_evaluations1 =
                            evaluate_transition(ev.main_trace_frame,
                                                ev.periodic_values,
                                                NumMainConstraints)]
    /\ UNCHANGED <<digest, dcall, dret, hcall, hpc, hret>>

\* lines 57-67: the auxiliary segments' transition evaluations, if any
EvaluateAuxTransition ==
    /\ ev.pc = "aux_transition"
    /\ ev' = IF ev.aux_trace_frame.some
             THEN [ev EXCEPT !.pc = "combine",
                             !.aux_transition_called = TRUE,
                             !.t_evaluations2 =
                                 evaluate_aux_transition(ev.main_trace_frame,
                                     ev.aux_trace_frame.frame, ev.periodic_values,
                                     ev.aux_rand_elements, NumAuxConstraints)]
             ELSE [ev EXCEPT !.pc = "combine",
                             !.t_evaluations2 = zeroed_vector(NumAuxConstraints)]
    /\ UNCHANGED <<digest, dcall, dret, hcall, hpc, hret>>

\* line 73
CombineEvaluations ==
    /\ ev.pc = "combine"
    /\ ev' = [ev EXCEPT !.pc = "boundary",
                        !.t_combined = combine_evaluations(ev.t_evaluations1,
                                                           ev.t_evaluations2, ev.x)]
    /\ UNCHANGED <<digest, dcall, dret, hcall, hpc, hret>>

\* where the boundary loops go after main group i
AfterMainGroup(i) ==
    IF i < Len(ev.main_constraints) THEN "main_groups"
    ELSE IF ev.aux_trace_frame.some /\ Len(ev.aux_constraints) > 0 THEN "aux_groups"
    ELSE "finish"

\* lines 79-93: main_constraints()[0] panics on an empty list
CachePower ==
    /\ ev.pc = "boundary"
    /\ ev' = IF Len(ev.main_constraints) = 0
             THEN [ev EXCEPT !.pc = "panic"]
             ELSE LET d == ev.main_constraints[1].degree_adjustment
                  IN  [ev EXCEPT !.pc = "main_groups",
                                 !.degree_adjustment = d,
                                 !.xp = exp_vartime(ev.x, d),
                                 !.b_result = 0,
                                 !.i = 1]
    /\ UNCHANGED <<digest, dcall, dret, hcall, hpc, hret>>

\* lines 94-108: one iteration of the main segment's loop
MainGroup ==
    /\ ev.pc = "main_groups"
    /\ LET group == ev.main_constraints[ev.i]
           cache == cached_power(ev.x, ev.degree_adjustment, ev.xp, group)
       IN  ev' = [ev EXCEPT
                    !.degree_adjustment = cache[1],
                    !.xp = cache[2],
                    !.b_result = Felt(ev.b_result
                        + evaluate_at(group, ev.main_trace_frame.current, ev.x, cache[2])),
                    !.evaluated = Append(ev.evaluated,
                        [segment |-> "main", index |-> ev.i, xp |-> cache[2]]),
                    !.i = IF AfterMainGroup(ev.i) = "main_groups" THEN ev.i + 1 ELSE 1,
                    !.pc = AfterMainGroup(ev.i)]
    /\ UNCHANGED <<digest, dcall, dret, hcall, hpc, hret>>

\* lines 113-124: one iteration of the auxiliary segments' loop
AuxGroup ==
    /\ ev.pc = "aux_groups"
    /\ LET group == ev.aux_constraints[ev.i]
           cache == cached_power(ev.x, ev.degree_adjustment, ev.xp, group)
       IN  ev' = [ev EXCEPT
                    !.degree_adjustment = cache[1],
                    !.xp = cache[2],
                    !.b_result = Felt(ev.b_result
                        + evaluate_at(group, ev.aux_trace_frame.frame.current, ev.x, cache[2])),
                    !.evaluated = Append(ev.evaluated,
                        [segment |-> "aux", index |-> ev.i, xp |-> cache[2]]),
                    !.i = ev.i + 1,
                    !.pc = IF ev.i < Len(ev.aux_constraints) THEN "aux_groups"
                           ELSE "finish"]
    /\ UNCHANGED <<digest, dcall, dret, hcall, hpc, hret>>

\* lines 125-128
Finish ==
    /\ ev.pc = "finish"
    /\ ev' = [ev EXCEPT !.pc = "done",
                        !.result = final_result(ev.b_result, ev.t_combined)]
    /\ UNCHANGED <<digest, dcall, dret, hcall, hpc, hret>>

NextEval ==
    \/ PeriodicValues
    \/ EvaluateTransition
    \/ EvaluateAuxTransition
    \/ CombineEvaluations
    \/ CachePower
    \/ MainGroup
    \/ AuxGroup
    \/ Finish

--------------------------------------------------------------------------
(* Specifications *)

InitDigest ==
    /\ digest = default(Digest256Bytes)
    /\ dcall = "default"
    /\ dret = Ok(<<>>)

IdleHash ==
    /\ hcall = NoCall
    /\ hpc = "returned"
    /\ hret = Ok(<<>>)

IdleEval == ev = [pc |-> "idle"]

Init ==
    /\ InitDigest
    /\ IdleHash
    /\ IdleEval

\* the ByteDigest operations, from a default digest
SpecDigest == Init /\ [][NextDigest]_vars

\* one Hasher / ElementHasher call on inputs drawn from the sample sets
InitHash ==
    /\ InitDigest
    /\ hcall \in HashCalls \cup MergeCalls \cup MergeWithIntCalls \cup HashElementsCalls
    /\ hpc = "call"
    /\ hret = Ok(<<>>)
    /\ IdleEval

SpecHash == InitHash /\ [][NextHash]_vars

\* one call of evaluate_constraints on inputs drawn from the sample sets
InitEval ==
    /\ InitDigest
    /\ IdleHash
    /\ ev \in EvalCalls

SpecEval == InitEval /\ [][NextEval]_vars


--------------------------------------------------------------------------
(* Properties of ByteDigest, checked under SpecDigest *)

\* C9: for every ByteDigest<N> with N <= 32, as_bytes returns 32 bytes whose
\* first N are the digest's bytes in order and whose other 32 - N are zero,
\* and the call leaves the digest unchanged.
C9_AsBytesZeroPadsOnTheRight ==
    /\ [](dcall = "as_bytes" =>
            /\ dret.ok
            /\ Len(dret.val) = 32
            /\ \A i \in 1..32 :
                dret.val[i] = IF i <= Len(digest) THEN digest[i] ELSE 0)
    /\ [][dcall' = "as_bytes" => digest' = digest]_vars

\* C9 witness: as_bytes of the 31-byte digest of all 0xFF has returned 31
\* bytes of 0xFF and one 0x00.
C9_Witness ==
    /\ dcall = "as_bytes"
    /\ digest = [i \in 1..31 |-> 255]
    /\ dret.ok
    /\ dret.val = [i \in 1..32 |-> IF i <= 31 THEN 255 ELSE 0]

\* the k-th group of four bytes of d, as the eight hex digits of the
\* little-endian word it encodes
WordDigits(d, k) ==
    LET b == [j \in 1..4 |-> d[4 * (k - 1) + j]]
        hex2(x) == <<HexDigit[(x \div 16) + 1], HexDigit[(x % 16) + 1]>>
    IN  hex2(b[4]) \o hex2(b[3]) \o hex2(b[2]) \o hex2(b[1])

\* C10: for every ByteDigest<N> with N <= 32, to_words and lower-hex
\* formatting complete without aborting and render the digest's bytes as
\* successive little-endian 32-bit words, each printed as 8 hex digits.
C10_WordsAndHexNeverAbort ==
    /\ dcall = "to_words" =>
        /\ dret.ok
        /\ \A k \in 1..(Len(digest) \div 4) :
            /\ dret.val[k].lo = digest[4 * k - 3] + 256 * digest[4 * k - 2]
            /\ dret.val[k].hi = digest[4 * k - 1] + 256 * digest[4 * k]
    /\ dcall = "fmt" =>
        /\ dret.ok
        /\ \A k \in 1..(Len(digest) \div 4) :
            Slice(dret.val, 8 * (k - 1), 8 * k) = WordDigits(digest, k)

--------------------------------------------------------------------------
(* Properties of the hashers, checked under SpecHash *)

Returned(op) == hpc = "returned" /\ hcall.op = op

\* the slot the non-canonical path is specified to feed for an element: its
\* canonical bytes, then zero bytes up to 32
PaddedSlot(e) ==
    [i \in 1..32 |-> IF i <= Len(to_bytes(e)) THEN to_bytes(e)[i] ELSE 0]

PaddedSlots(elements) ==
    Concat([k \in 1..Len(elements) |-> PaddedSlot(elements[k])])

\* C1: every Blake2s_192 operation returns exactly the first 24 bytes of
\* the digest the corresponding Blake2s_256 operation computes over the same
\* input (for merge and merge_with_int, over the same input bytes).
C1_Blake2s192TruncatesBlake2s256 ==
    (hpc = "returned" /\ hcall.hasher = "Blake2s_192") =>
        LET full ==
              CASE hcall.op = "hash" -> Blake2s_256_hash(hcall.bytes)
                [] hcall.op = "merge" ->
                     Blake2s_256_hash(hcall.digests[1] \o hcall.digests[2])
                [] hcall.op = "merge_with_int" ->
                     Blake2s_256_hash(hcall.digests[1] \o to_le_bytes(hcall.value))
                [] OTHER ->
                     Blake2s_256_hash_elements(hcall.is_canonical, hcall.elements)
        IN  /\ full.ok
            /\ hret = Ok([i \in 1..24 |-> full.val[i]])

\* C2: on the non-canonical path Blake2s_256::hash_elements completes for
\* every sequence of elements of at most 32 canonical bytes each and returns
\* the digest of the elements' zero-padded 32-byte slots, in order.
C2_NonCanonicalHashesPaddedSlots ==
    (/\ Returned("hash_elements")
     /\ hcall.hasher = "Blake2s_256"
     /\ ~hcall.is_canonical
     /\ \A k \in 1..Len(hcall.elements) : Len(to_bytes(hcall.elements[k])) <= 32)
    => hret = Ok(blake2s_hash(PaddedSlots(hcall.elements)))

\* C6: for both hashers, merge([d1, d2]) is hash of the N bytes of d1
\* followed by the N bytes of d2, nothing between or after them.
C6_MergeIsHashOfConcatenation ==
    Returned("merge") =>
        /\ Len(hcall.digests[1] \o hcall.digests[2]) = 2 * DigestBytes(hcall.hasher)
        /\ hret = hash(hcall.hasher, hcall.digests[1] \o hcall.digests[2])

\* C6 witness: a merge of two different 24-byte digests has returned.
C6_Witness ==
    /\ Returned("merge")
    /\ hcall.hasher = "Blake2s_192"
    /\ hcall.digests[1] # hcall.digests[2]
    /\ hret.ok /\ Len(hret.val) = 24

\* the 8 little-endian bytes of a u64 given as 16-bit limbs
LittleEndian8(v) ==
    <<v[1] % 256, v[1] \div 256, v[2] % 256, v[2] \div 256,
      v[3] % 256, v[3] \div 256, v[4] % 256, v[4] \div 256>>

\* C7: for both hashers, merge_with_int(d, n) is hash of the N bytes of d
\* followed by the 8 little-endian bytes of n: a 40-byte input for
\* Blake2s_256, a 32-byte input for Blake2s_192.
C7_MergeWithIntIsHashOfSeedAndCounter ==
    Returned("merge_with_int") =>
        LET input == hcall.digests[1] \o LittleEndian8(hcall.value)
        IN  /\ Len(input) = IF hcall.hasher = "Blake2s_256" THEN 40 ELSE 32
            /\ hret = hash(hcall.hasher, input)

\* C7 witness: merge_with_int of a 24-byte seed and the counter
\* 0x0807060504030201 has returned.
C7_Witness ==
    /\ Returned("merge_with_int")
    /\ hcall.hasher = "Blake2s_192"
    /\ hcall.value = <<513, 1027, 1541, 2055>>
    /\ LittleEndian8(hcall.value) = <<1, 2, 3, 4, 5, 6, 7, 8>>
    /\ hret.ok

\* the bytes hash_elements hands to the BLAKE2s primitive on the
\* non-canonical path
ElementStream(H, elements) ==
    IF H = "Blake2s_256" THEN write_slots(Blake2sHasher_new, elements)
    ELSE Ok(write(Blake2sHasher_new, elements))

--------------------------------------------------------------------------
(* Properties of evaluate_constraints, checked under SpecEval *)

\* the sum a reference evaluator accumulates over a list of boundary groups,
\* raising x to every group's own degree adjustment
RECURSIVE BoundarySum(_, _, _)
BoundarySum(groups, row, x) ==
    IF groups = <<>> THEN 0
    ELSE Felt(evaluate_at(Head(groups), row, x,
                          exp_vartime(x, Head(groups).degree_adjustment))
              + BoundarySum(Tail(groups), row, x))

\* the group an entry of the evaluation log is about
GroupOf(entry) ==
    IF entry.segment = "main" THEN ev.main_constraints[entry.index]
    ELSE ev.aux_constraints[entry.index]

\* C3: at every call of group.evaluate_at, in the main loop and in the
\* auxiliary loop, the cached power xp is x raised to that group's
\* degree_adjustment, and the value returned is the one a reference
\* evaluator computes that recomputes the power for every group.
C3_CachedPowerIsThePowerOfTheGroup ==
    /\ \A k \in 1..Len(ev.evaluated) :
        ev.evaluated[k].xp =
            exp_vartime(ev.x, GroupOf(ev.evaluated[k]).degree_adjustment)
    /\ ev.pc = "done" =>
        ev.result = Felt(ev.t_combined
            + BoundarySum(ev.main_constraints, ev.main_trace_frame.current, ev.x)
            + IF ev.aux_trace_frame.some
              THEN BoundarySum(ev.aux_constraints,
                               ev.aux_trace_frame.frame.current, ev.x)
              ELSE 0)

\* C3 witness: a call has returned whose two main groups differ in their
\* degree adjustment and whose auxiliary group has that of the last main
\* group, so that it was evaluated with the inherited cached pair.
C3_Witness ==
    /\ ev.pc = "done"
    /\ ev.aux_trace_frame.some
    /\ Len(ev.main_constraints) = 2 /\ Len(ev.aux_constraints) = 1
    /\ ev.main_constraints[1].degree_adjustment
         # ev.main_constraints[2].degree_adjustment
    /\ ev.aux_constraints[1].degree_adjustment
         = ev.main_constraints[2].degree_adjustment
    /\ Len(ev.evaluated) = 3
    /\ exp_vartime(ev.x, 1) # exp_vartime(ev.x, 3)

\* the AIR data the claim calls malformed
Malformed ==
    \/ Len(ev.main_constraints) = 0
    \/ \E k \in 1..Len(ev.polys) :
        \/ Len(ev.polys[k]) = 0
        \/ ev.trace_length % Len(ev.polys[k]) # 0

\* C4: evaluate_constraints aborts, and returns no value, whenever the main
\* list of boundary groups is empty or some periodic column's length does
\* not divide trace_length.
C4_MalformedAirNeverReturns ==
    Malformed => ev.pc # "done"

\* the log of evaluate_at calls over groups 1..n of a segment, in order
InOrder(segment, n) == [k \in 1..n |-> [segment |-> segment, index |-> k]]

\* C5: the value returned is t_combined plus the sum of evaluate_at over the
\* main groups in supplied order plus, only with an auxiliary frame, the sum
\* over the auxiliary groups on the auxiliary frame's current row; without an
\* auxiliary frame the auxiliary groups contribute nothing,
\* evaluate_aux_transition is not called and the auxiliary evaluations
\* handed to combine_evaluations are num_aux_constraints zeros.
C5_ResultIsTransitionPlusBoundarySums ==
    ev.pc = "done" =>
        LET has_aux == ev.aux_trace_frame.some
            pv == periodic_values_of(ev.trace_length, ev.polys, ev.x).val
            t1 == evaluate_transition(ev.main_trace_frame, pv, NumMainConstraints)
            t2 == IF has_aux
                  THEN evaluate_aux_transition(ev.main_trace_frame,
                           ev.aux_trace_frame.frame, pv, ev.aux_rand_elements,
                           NumAuxConstraints)
                  ELSE [k \in 1..NumAuxConstraints |-> 0]
            calls == [k \in 1..Len(ev.evaluated) |->
                        [segment |-> ev.evaluated[k].segment,
                         index |-> ev.evaluated[k].index]]
        IN  /\ ev.t_evaluations2 = t2
            /\ ev.aux_transition_called = has_aux
            /\ calls = InOrder("main", Len(ev.main_constraints))
                       \o (IF has_aux THEN InOrder("aux", Len(ev.aux_constraints))
                           ELSE <<>>)
            /\ ev.result = Felt(combine_evaluations(t1, t2, ev.x)
                + BoundarySum(ev.main_constraints, ev.main_trace_frame.current, ev.x)
                + IF has_aux
                  THEN BoundarySum(ev.aux_constraints,
                                   ev.aux_trace_frame.frame.current, ev.x)
                  ELSE 0)

\* C5 witness: a call without an auxiliary frame, but with an auxiliary
\* boundary group and two main groups, has returned.
C5_Witness ==
    /\ ev.pc = "done"
    /\ ~ev.aux_trace_frame.some
    /\ Len(ev.aux_constraints) = 1
    /\ Len(ev.main_constraints) = 2
    /\ ev.t_evaluations2 = [k \in 1..NumAuxConstraints |-> 0]

====
